---- MODULE Spec2Model ----
(***************************************************************************)
(* Model of js_modules/dagit/packages/core/src/assets/                     *)
(* usePartitionHealthData.tsx: the partition health index built by         *)
(* buildPartitionHealthData and the per-asset cache kept by the            *)
(* usePartitionHealthData hook.                                            *)
(*                                                                         *)
(* Two specifications share the module:                                    *)
(*   Spec       the hook: props change, fetches are issued, resolve and    *)
(*              reject in any order;                                       *)
(*   SpecIndex  the index: an index is built from a bounded payload and    *)
(*              its query methods are called.                              *)
(***************************************************************************)
EXTENDS Integers, Sequences, FiniteSets, Bags, TLC

VARIABLES
    \* ---- the hook (usePartitionHealthData) ----
    assetKeys,                 \* prop: the requested asset keys of the last evaluation
    assetLastMaterializedAt,   \* prop: the freshness hint of the last evaluation
    result,                    \* React state: list of loaded entries with fetchedAt
    memoDeps,                  \* dependencies of the fetching useMemo at its last run
    inflight,                  \* unresolved client.query promises (a bag of closures)
    returned,                  \* the list the last evaluation returned
    requested,                 \* history: the hints the hook has been evaluated with
    last,                      \* the last handler that ran and the fetches it issued
    \* ---- the index (buildPartitionHealthData) ----
    data,                      \* the query result the index is built from
    health,                    \* the index built from data
    dimensionKeys,             \* the caller's key list object handed to stateForKey
    call,                      \* the last query call: method and arguments as passed
    ret                        \* what the last query call returned

hookVars == <<assetKeys, assetLastMaterializedAt, result, memoDeps, inflight,
              returned, requested, last>>
indexVars == <<data, health, dimensionKeys, call, ret>>
vars == <<assetKeys, assetLastMaterializedAt, result, memoDeps, inflight,
          returned, requested, last, data, health, dimensionKeys, call, ret>>

(***************************************************************************)
(* Bounds                                                                  *)
(***************************************************************************)
MaxKeys == 2          \* partition keys per dimension
MaxRanges == 2        \* primary ranges per payload
MaxSubranges == 2     \* secondary ranges per primary range
MaxOtherKeys == 2     \* length of otherDimensionSelectedKeys
MaxAssetKeys == 2     \* length of the requested asset key list
MaxInFlight == 2      \* unresolved fetches at a time
MaxDimensionIdx == 2  \* largest dimensionIdx passed to stateForSingleDimension

(***************************************************************************)
(* Array helpers (JavaScript semantics, 0-based indices)                   *)
(***************************************************************************)
\* an indexOf that answers the first position for an absent key
IndexOfOrFirst(seq, key) ==
    IF \E i \in 1..Len(seq) : seq[i] = key
    THEN (CHOOSE i \in 1..Len(seq) :
              seq[i] = key /\ \A j \in 1..(i - 1) : seq[j] # key) - 1
    ELSE 0

\* Array.prototype.indexOf: first position of key, -1 when absent
IndexOf(seq, key) ==
    IF \E i \in 1..Len(seq) : seq[i] = key
    THEN (CHOOSE i \in 1..Len(seq) :
              seq[i] = key /\ \A j \in 1..(i - 1) : seq[j] # key) - 1
    ELSE -1

\* Array.prototype.reverse
Reverse(seq) == [i \in 1..Len(seq) |-> seq[Len(seq) + 1 - i]]

\* the set of elements of an array
Range(seq) == {seq[i] : i \in 1..Len(seq)}

\* arrays over S of length at most n
SeqsUpTo(S, n) == UNION {[1..k -> S] : k \in 0..n}

\* the non-empty selections of at most n elements of the array seq, each in
\* the order of seq
Selections(seq, n) ==
    {s \in SeqsUpTo(Range(seq), n) :
        Len(s) >= 1 /\ \A i \in 1..(Len(s) - 1) : IndexOf(seq, s[i]) < IndexOf(seq, s[i + 1])}

(***************************************************************************)
(* PartitionState                                                          *)
(***************************************************************************)
SUCCESS == "SUCCESS"
SUCCESS_MISSING == "SUCCESS_MISSING"
MISSING == "MISSING"
\* throw new Error('stateForSingleDimension asked for third dimension')
THROWN == "THROWN"
\* the TypeError of reading a property of undefined
TYPE_ERROR == "TYPE_ERROR"

(***************************************************************************)
(* buildPartitionHealthData and the closures it returns                    *)
(***************************************************************************)
\* isTimeseriesDimension (MultipartitioningSupport): the dimension is time-like.
\* Partition keys are modelled as pairs <<family, n>>; the keys of a time-like
\* dimension are of family "t".
isTimeseriesDimension(dim) ==
    Len(dim.partitionKeys) > 0 /\ dim.partitionKeys[1][1] = "t"

\* mergedStates (MultipartitioningSupport): all SUCCESS -> SUCCESS,
\* all MISSING -> MISSING, mixed -> SUCCESS_MISSING
mergedStates(states) ==
    IF \A i \in 1..Len(states) : states[i] = SUCCESS THEN SUCCESS
    ELSE IF \A i \in 1..Len(states) : states[i] = MISSING THEN MISSING
    ELSE SUCCESS_MISSING

\* mutant of Contains: the end of a range is taken as exclusive
ContainsExclusive(r, i) == r.start.idx <= i /\ r.end.idx > i

\* r.start.idx <= i && r.end.idx >= i
Contains(r, i) == r.start.idx <= i /\ r.end.idx >= i

\* Array.prototype.find over ranges: the first range containing index i
\* (defined only when some range contains i)
FindRange(rs, i) ==
    rs[CHOOSE n \in 1..Len(rs) :
           Contains(rs[n], i) /\ \A m \in 1..(n - 1) : ~Contains(rs[m], i)]

HasRange(rs, i) == \E n \in 1..Len(rs) : Contains(rs[n], i)

\* one secondaryDimRanges element with its indices resolved
AddSubIndex(dimensions, sub) ==
    [value |-> SUCCESS,
     start |-> [key |-> sub.start, idx |-> IndexOf(dimensions[2].partitionKeys, sub.start)],
     end |-> [key |-> sub.end, idx |-> IndexOf(dimensions[2].partitionKeys, sub.end)]]

\* a range value that compares the end index with the length
RangeValueOffByOne(dimensions, subranges) ==
    IF /\ Len(subranges) = 1
       /\ subranges[1].start.idx = 0
       /\ subranges[1].end.idx = Len(dimensions[2].partitionKeys)
    THEN SUCCESS
    ELSE SUCCESS_MISSING

\* the value (coverage) of a primary range with the given indexed subranges
RangeValue(dimensions, subranges) ==
    IF /\ Len(subranges) = 1
       /\ subranges[1].start.idx = 0
       /\ subranges[1].end.idx = Len(dimensions[2].partitionKeys) - 1
    THEN SUCCESS
    ELSE SUCCESS_MISSING

\* the body of addIndexes' loop for one range of the payload
AddIndex(dimensions, range) ==
    IF range.typename = "MaterializedPartitionRange1D"
    THEN [value |-> SUCCESS,
          start |-> [key |-> range.start,
                     idx |-> IndexOf(dimensions[1].partitionKeys, range.start)],
          end |-> [key |-> range.end,
                   idx |-> IndexOf(dimensions[1].partitionKeys, range.end)]]
    ELSE LET subranges == [i \in 1..Len(range.secondaryDimRanges) |->
                               AddSubIndex(dimensions, range.secondaryDimRanges[i])]
         IN [value |-> RangeValue(dimensions, subranges),
             subranges |-> subranges,
             start |-> [key |-> range.primaryDimStart,
                        idx |-> IndexOf(dimensions[1].partitionKeys, range.primaryDimStart)],
             end |-> [key |-> range.primaryDimEnd,
                      idx |-> IndexOf(dimensions[1].partitionKeys, range.primaryDimEnd)]]

addIndexes(dimensions, materializedPartitions) ==
    [i \in 1..Len(materializedPartitions.ranges) |->
         AddIndex(dimensions, materializedPartitions.ranges[i])]

\* the payload of a query result without materializedPartitions
NoMaterializedPartitions == [typename |-> "MaterializedPartitions1D", ranges |-> <<>>]

\* const isRangeDataInverted = __dims.length === 2 && isTimeseriesDimension(__dims[1])
IsRangeDataInverted(dims) == Len(dims) = 2 /\ isTimeseriesDimension(dims[2])

\* buildPartitionHealthData: the values its closures capture.  dimensions is the
\* exposed list (declared order); rdims is the local `dimensions` (range order).
buildPartitionHealthData(d, loadKey) ==
    LET dims == IF d.assetNodeOrError.typename = "AssetNode"
                THEN d.assetNodeOrError.partitionKeysByDimension
                ELSE <<>>
        inverted == IsRangeDataInverted(dims)
        rdims == IF inverted THEN <<dims[2], dims[1]>> ELSE dims
        mp == IF /\ d.assetNodeOrError.typename = "AssetNode"
                 /\ d.assetNodeOrError.materializedPartitions.typename # "null"
              THEN d.assetNodeOrError.materializedPartitions
              ELSE NoMaterializedPartitions
    IN [assetKey |-> loadKey,
        dimensions |-> dims,
        rdims |-> rdims,
        isRangeDataInverted |-> inverted,
        ranges |-> addIndexes(rdims, mp)]

\* stateForKeyRangeOrdering; dIndexes[1] of a one-key list is undefined and
\* compares false with every index
stateForKeyRangeOrdering(h, keys) ==
    IF Len(keys) > Len(h.rdims) THEN TYPE_ERROR
    ELSE LET dIndexes == [i \in 1..Len(keys) |-> IndexOf(h.rdims[i].partitionKeys, keys[i])]
         IN IF Len(keys) = 0 \/ ~HasRange(h.ranges, dIndexes[1]) THEN MISSING
            ELSE LET d0Range == FindRange(h.ranges, dIndexes[1])
                 IN IF "subranges" \notin DOMAIN d0Range THEN SUCCESS
                    ELSE IF Len(keys) >= 2 /\ HasRange(d0Range.subranges, dIndexes[2])
                         THEN SUCCESS
                         ELSE MISSING

\* mutant of KeysAfterStateForKey: the keys are never put in range order
KeysNotReversed(h, keys) == keys

\* the list stateForKey leaves in the caller's array: reverse() works in place
KeysAfterStateForKey(h, keys) ==
    IF h.isRangeDataInverted THEN Reverse(keys) ELSE keys

\* stateForKey
stateForKey(h, keys) ==
    stateForKeyRangeOrdering(h, KeysAfterStateForKey(h, keys))

\* the optional argument otherDimensionSelectedKeys
NoSelection == [given |-> FALSE, keys |-> <<>>]
Selection(keys) == [given |-> TRUE, keys |-> keys]

\* the dimensionIdx === 1 branch of stateForSingleDimension
StateForDimension1(h, dimensionKey, other) ==
    IF Len(h.rdims) < 2 THEN TYPE_ERROR
    ELSE IF \E n \in 1..Len(h.ranges) : "subranges" \notin DOMAIN h.ranges[n] THEN TYPE_ERROR
    ELSE LET d1Idx == IndexOf(h.rdims[2].partitionKeys, dimensionKey)
             matching == SelectSeq(h.ranges, LAMBDA r : HasRange(r.subranges, d1Idx))
             all == IF ~other.given
                    THEN Len(matching) = Len(h.ranges)
                    ELSE \A n \in 1..Len(other.keys) :
                             HasRange(matching, IndexOf(h.rdims[1].partitionKeys, other.keys[n]))
         IN IF all THEN SUCCESS
            ELSE IF Len(matching) > 0 THEN SUCCESS_MISSING
            ELSE MISSING

\* a dimension-0 branch that ignores the value of the containing range
StateForDimension0NoValue(h, dimensionKey, other) ==
    IF Len(h.rdims) = 0 THEN TYPE_ERROR
    ELSE IF Len(h.rdims) = 1 THEN stateForKeyRangeOrdering(h, <<dimensionKey>>)
    ELSE IF ~other.given
         THEN IF HasRange(h.ranges, IndexOf(h.rdims[1].partitionKeys, dimensionKey))
              THEN SUCCESS
              ELSE MISSING
         ELSE mergedStates([n \in 1..Len(other.keys) |->
                  stateForKeyRangeOrdering(h, <<dimensionKey, other.keys[n]>>)])

\* the dimensionIdx === 0 branches of stateForSingleDimension
StateForDimension0(h, dimensionKey, other) ==
    IF Len(h.rdims) = 0 THEN TYPE_ERROR
    ELSE IF Len(h.rdims) = 1 THEN stateForKeyRangeOrdering(h, <<dimensionKey>>)
    ELSE IF ~other.given
         THEN LET d0Idx == IndexOf(h.rdims[1].partitionKeys, dimensionKey)
              IN IF HasRange(h.ranges, d0Idx)
                 THEN FindRange(h.ranges, d0Idx).value
                 ELSE MISSING
         ELSE mergedStates([n \in 1..Len(other.keys) |->
                  stateForKeyRangeOrdering(h, <<dimensionKey, other.keys[n]>>)])

\* a stateForSingleDimension without the final throw
stateForSingleDimensionNoThrow(h, dimensionIdx, dimensionKey, other) ==
    LET idx == IF h.isRangeDataInverted THEN 1 - dimensionIdx ELSE dimensionIdx
    IN IF idx = 0 THEN StateForDimension0(h, dimensionKey, other)
       ELSE StateForDimension1(h, dimensionKey, other)

\* stateForSingleDimension
stateForSingleDimension(h, dimensionIdx, dimensionKey, other) ==
    LET idx == IF h.isRangeDataInverted THEN 1 - dimensionIdx ELSE dimensionIdx
    IN IF idx = 0 THEN StateForDimension0(h, dimensionKey, other)
       ELSE IF idx = 1 THEN StateForDimension1(h, dimensionKey, other)
       ELSE THROWN

(***************************************************************************)
(* Bounded inputs of the index: dimension lists and wire payloads          *)
(***************************************************************************)
\* the partition keys of a dimension: family f, n keys in order
Keys(f, n) == [i \in 1..n |-> <<f, i - 1>>]

DimX == [name |-> "x", partitionKeys |-> Keys("x", MaxKeys)]
DimT == [name |-> "date", partitionKeys |-> Keys("t", MaxKeys)]

\* partitionKeysByDimension as the backend declares it
DimensionLists == {<<DimX>>, <<DimT, DimX>>, <<DimX, DimT>>}

\* a key that occurs in no dimension
UnknownKey == <<"unknown", 0>>

\* inclusive index intervals <<a, b>> over n keys
Intervals(n) == {iv \in (0..(n - 1)) \X (0..(n - 1)) : iv[1] <= iv[2]}

\* ascending, non-overlapping lists of at most m intervals over n keys
IntervalSeqs(n, m) ==
    {s \in SeqsUpTo(Intervals(n), m) :
        \A i \in 1..(Len(s) - 1) : s[i][2] < s[i + 1][1]}

Wire1D(dim, iv) ==
    [typename |-> "MaterializedPartitionRange1D",
     start |-> dim.partitionKeys[iv[1] + 1],
     end |-> dim.partitionKeys[iv[2] + 1]]

Wire2D(primary, secondary, iv, subs) ==
    [typename |-> "MaterializedPartitionRange2D",
     primaryDimStart |-> primary.partitionKeys[iv[1] + 1],
     primaryDimEnd |-> primary.partitionKeys[iv[2] + 1],
     secondaryDimRanges |-> [i \in 1..Len(subs) |->
         [start |-> secondary.partitionKeys[subs[i][1] + 1],
          end |-> secondary.partitionKeys[subs[i][2] + 1]]]]

\* MaterializedPartitions1D payloads over the wire's primary dimension
Payloads1D(primary) ==
    {[typename |-> "MaterializedPartitions1D",
      ranges |-> [i \in 1..Len(s) |-> Wire1D(primary, s[i])]] :
        s \in IntervalSeqs(Len(primary.partitionKeys), MaxRanges)}

\* MaterializedPartitions2D payloads: every primary range carries its own
\* ascending, non-overlapping (possibly empty) list of secondary ranges
Payloads2D(primary, secondary) ==
    LET prim == IntervalSeqs(Len(primary.partitionKeys), MaxRanges)
        subs == IntervalSeqs(Len(secondary.partitionKeys), MaxSubranges)
    IN UNION {{[typename |-> "MaterializedPartitions2D",
                ranges |-> [i \in 1..Len(s) |-> Wire2D(primary, secondary, s[i], f[i])]] :
                   f \in [1..Len(s) -> subs]} : s \in prim}

\* the payloads the backend can send for a declared dimension list: none,
\* MaterializedPartitions1D for one dimension and MaterializedPartitions2D for
\* two (the ranges of a 2D index always carry subranges: r.subranges!); the time
\* dimension is the wire's primary one when it is declared second
PayloadsFor(dims) ==
    LET primary == IF IsRangeDataInverted(dims) THEN dims[2] ELSE dims[1]
    IN {[typename |-> "null"]}
         \cup (IF Len(dims) = 2
               THEN Payloads2D(primary, IF IsRangeDataInverted(dims) THEN dims[1] ELSE dims[2])
               ELSE Payloads1D(primary))

\* PartitionHealthQueryQuery results
AssetNodeData(dims, mp) ==
    [assetNodeOrError |-> [typename |-> "AssetNode",
                           partitionKeysByDimension |-> dims,
                           materializedPartitions |-> mp]]
NotFoundData == [assetNodeOrError |-> [typename |-> "AssetNotFoundError"]]

QueryResults ==
    {NotFoundData}
      \cup UNION {{AssetNodeData(dims, mp) : mp \in PayloadsFor(dims)} : dims \in DimensionLists}

\* the keys a caller may pass for a dimension: its own keys or an unknown one
QueryKeys(dim) == Range(dim.partitionKeys) \cup {UnknownKey}

\* one key per declared dimension, in declared order
KeyTuples(dims) ==
    {t \in [1..Len(dims) -> UNION {QueryKeys(dims[i]) : i \in 1..Len(dims)} \cup {UnknownKey}] :
        \A i \in 1..Len(dims) : t[i] \in QueryKeys(dims[i])}

\* the asset key the index specification builds its index for
IndexAssetKey == [path |-> <<"asset">>]

(***************************************************************************)
(* The hook's state while only the index is exercised                      *)
(***************************************************************************)
NoDeps == <<<<>>, "unmounted">>
NoCall == [method |-> "none", keys |-> <<>>, dimensionIdx |-> 0,
           dimensionKey |-> UnknownKey, other |-> NoSelection, repeated |-> FALSE,
           afterThrow |-> FALSE]

HookIdle ==
    /\ assetKeys = <<>>
    /\ assetLastMaterializedAt = ""
    /\ result = <<>>
    /\ memoDeps = NoDeps
    /\ inflight = EmptyBag
    /\ returned = <<>>
    /\ requested = {}
    /\ last = [op |-> "none", issued |-> {}]

(***************************************************************************)
(* SpecIndex: build an index, then query it.  The index is immutable and   *)
(* a query reads nothing but the index and its arguments, so a behaviour   *)
(* makes one query with fresh arguments and may then repeat stateForKey    *)
(* with the list object it passed before, or, when the query threw, go on  *)
(* with a point query.                                                     *)
(***************************************************************************)
InitIndex ==
    /\ HookIdle
    /\ data \in QueryResults
    /\ health = buildPartitionHealthData(data, IndexAssetKey)
    /\ dimensionKeys = <<>>
    /\ call = NoCall
    /\ ret = "none"

\* health.stateForKey(keys) with a list the caller has just built
CallStateForKey(keys) ==
    /\ call.method = "none"
    /\ call' = [NoCall EXCEPT !.method = "stateForKey", !.keys = keys]
    /\ ret' = stateForKey(health, keys)
    /\ dimensionKeys' = KeysAfterStateForKey(health, keys)
    /\ UNCHANGED <<data, health>>
    /\ UNCHANGED hookVars

\* health.stateForKey(list) again, with the list object of the previous call
RepeatStateForKey ==
    /\ call.method = "stateForKey"
    /\ ~call.afterThrow
    /\ call' = [call EXCEPT !.keys = dimensionKeys, !.repeated = TRUE]
    /\ ret' = stateForKey(health, dimensionKeys)
    /\ dimensionKeys' = KeysAfterStateForKey(health, dimensionKeys)
    /\ UNCHANGED <<data, health>>
    /\ UNCHANGED hookVars

\* health.stateForKey(keys) after the caller has caught the error of a
\* stateForSingleDimension call
StateForKeyAfterThrow(keys) ==
    /\ call.method = "stateForSingleDimension"
    /\ ret = THROWN
    /\ call' = [NoCall EXCEPT !.method = "stateForKey", !.keys = keys, !.afterThrow = TRUE]
    /\ ret' = stateForKey(health, keys)
    /\ dimensionKeys' = KeysAfterStateForKey(health, keys)
    /\ UNCHANGED <<data, health>>
    /\ UNCHANGED hookVars

\* health.stateForSingleDimension(dimensionIdx, dimensionKey, other)
CallStateForSingleDimension(dimensionIdx, dimensionKey, other) ==
    /\ call.method = "none"
    /\ call' = [NoCall EXCEPT !.method = "stateForSingleDimension",
                              !.dimensionIdx = dimensionIdx,
                              !.dimensionKey = dimensionKey,
                              !.other = other]
    /\ ret' = stateForSingleDimension(health, dimensionIdx, dimensionKey, other)
    /\ UNCHANGED <<data, health, dimensionKeys>>
    /\ UNCHANGED hookVars

\* the arguments a caller may pass to stateForSingleDimension
SingleDimensionKeys(dims, dimensionIdx) ==
    IF dimensionIdx < Len(dims)
    THEN QueryKeys(dims[dimensionIdx + 1])
    ELSE IF Len(dims) = 0 THEN {UnknownKey} ELSE QueryKeys(dims[1])

OtherSelections(dims, dimensionIdx) ==
    IF Len(dims) = 2 /\ dimensionIdx < 2
    THEN {NoSelection} \cup
         {Selection(s) : s \in Selections(dims[2 - dimensionIdx].partitionKeys \o <<UnknownKey>>,
                                            MaxOtherKeys)}
    ELSE {NoSelection}

\* a caller's first query, with arguments it has just built
FirstQuery ==
    /\ call.method = "none"
    /\ \/ \E keys \in KeyTuples(health.dimensions) : CallStateForKey(keys)
       \/ \E dimensionIdx \in 0..MaxDimensionIdx :
            \E dimensionKey \in SingleDimensionKeys(health.dimensions, dimensionIdx) :
              \E other \in OtherSelections(health.dimensions, dimensionIdx) :
                CallStateForSingleDimension(dimensionIdx, dimensionKey, other)

NextIndex ==
    \/ FirstQuery
    \/ RepeatStateForKey
    \/ /\ ret = THROWN
       /\ \E keys \in KeyTuples(health.dimensions) : StateForKeyAfterThrow(keys)

SpecIndex == InitIndex /\ [][NextIndex]_vars

(***************************************************************************)
(* usePartitionHealthData: JSON conversions of asset keys                  *)
(***************************************************************************)
\* JSON text is a list of tokens: punctuation and string literals
Punct(c) == [t |-> "punct", v |-> c]
Str(c) == [t |-> "string", v |-> c]

\* JSON.stringify(k) of an AssetKey {path: string[]}
JSONstringify(key) ==
    <<Punct("{"), Str("path"), Punct(":"), Punct("[")>>
      \o [i \in 1..(2 * Len(key.path) - 1) |->
             IF i % 2 = 1 THEN Str(key.path[(i + 1) \div 2]) ELSE Punct(",")]
      \o <<Punct("]"), Punct("}")>>

\* JSON.parse of the text of an AssetKey: the string literals between the brackets
JSONparse(text) ==
    [path |-> [i \in 1..((Len(text) - 5) \div 2) |-> text[3 + 2 * i].v]]

\* lodash isEqual on asset keys: deep structural equality
isEqual(a, b) == a = b

\* find() found nothing: undefined, falsy like the empty string
Undefined == <<>>

(***************************************************************************)
(* usePartitionHealthData: one evaluation of the hook                      *)
(***************************************************************************)
\* const assetKeyJSONs = assetKeys.map((k) => JSON.stringify(k))
AssetKeyJSONs(keys) == [i \in 1..Len(keys) |-> JSONstringify(keys[i])]

\* result.some((r) => JSON.stringify(r.assetKey) === k && r.fetchedAt === hint)
IsCached(res, k, hint) ==
    \E n \in 1..Len(res) : JSONstringify(res[n].assetKey) = k /\ res[n].fetchedAt = hint

\* assetKeyJSONs.find((k) => !result.some(...)) over the stringified keys
FindMissing(jsons, res, hint) ==
    IF \E i \in 1..Len(jsons) : ~IsCached(res, jsons[i], hint)
    THEN jsons[CHOOSE i \in 1..Len(jsons) :
                   /\ ~IsCached(res, jsons[i], hint)
                   /\ \A j \in 1..(i - 1) : IsCached(res, jsons[j], hint)]
    ELSE Undefined

\* const missingKeyJSON = assetKeyJSONs.find(...)
MissingKeyJSON(keys, res, hint) == FindMissing(AssetKeyJSONs(keys), res, hint)

\* the closure of one run(): the key it loads and the hint it will tag the entry
\* with; seen records the hints the hook had been evaluated with when it was issued
Fetch(loadKey, hint, seen) == [loadKey |-> loadKey, fetchedAt |-> hint, seen |-> seen]

\* mutant of FetchesToIssue: every key without a fresh entry is fetched at once
FetchesAllMissing(missingKeyJSON, keys, res, hint, seen) ==
    {Fetch(keys[i], hint, seen) :
        i \in {j \in 1..Len(keys) : ~IsCached(res, JSONstringify(keys[j]), hint)}}

\* the body of the fetching useMemo: the queries one run of it starts
FetchesToIssue(missingKeyJSON, keys, res, hint, seen) ==
    IF missingKeyJSON = Undefined
    THEN {}
    ELSE {Fetch(JSONparse(missingKeyJSON), hint, seen)}

\* a memo that runs its body only when the hint changes
MemoRunsOnHint(deps, newDeps) == deps[2] # newDeps[2]

\* React.useMemo(..., [client, missingKeyJSON, assetLastMaterializedAt]): the
\* body runs on the first evaluation and whenever a dependency has changed
MemoRuns(deps, newDeps) == deps # newDeps

\* return result.filter((r) => assetKeyJSONs.includes(JSON.stringify(r.assetKey)))
Filtered(res, jsons) ==
    SelectSeq(res, LAMBDA r : \E i \in 1..Len(jsons) : jsons[i] = JSONstringify(r.assetKey))

\* mutant of Returned: entries tagged with another hint are held back
ReturnedFresh(res, keys, hint) ==
    SelectSeq(Filtered(res, AssetKeyJSONs(keys)), LAMBDA r : r.fetchedAt = hint)

\* a hook that returns its whole state
ReturnedAll(res, keys, hint) == res

Returned(res, keys, hint) == Filtered(res, AssetKeyJSONs(keys))

\* a setResult that appends without removing the key's prior entry
setResultAppend(res, loaded, fetchedAt) ==
    res \o <<[fetchedAt |-> fetchedAt] @@ loaded>>

\* setResult((result) => [...result.filter(not loadKey), {...loaded, fetchedAt}])
setResult(res, loaded, fetchedAt) ==
    SelectSeq(res, LAMBDA r : ~isEqual(r.assetKey, loaded.assetKey))
      \o <<[fetchedAt |-> fetchedAt] @@ loaded>>

\* one evaluation of the hook with props (keys, hint), state res, the memo's
\* dependencies deps, the unresolved queries pending and the hints seen so far
Evaluated(newDeps, issued, keys, hint, res, pending, seen) ==
    [memoDeps |-> newDeps,
     inflight |-> pending (+) SetToBag(issued),
     returned |-> Returned(res, keys, hint),
     requested |-> seen \cup {hint},
     issued |-> issued]

\* the fetching useMemo with the dependencies of this evaluation
RunMemo(newDeps, keys, hint, res, deps, pending, seen) ==
    Evaluated(newDeps,
              IF MemoRuns(deps, newDeps)
              THEN FetchesToIssue(newDeps[1], keys, res, hint, seen \cup {hint})
              ELSE {},
              keys, hint, res, pending, seen)

Evaluate(keys, hint, res, deps, pending, seen) ==
    RunMemo(<<MissingKeyJSON(keys, res, hint), hint>>, keys, hint, res, deps, pending, seen)

(***************************************************************************)
(* Bounded inputs of the hook                                              *)
(***************************************************************************)
AssetKeySet == {[path |-> <<"a">>], [path |-> <<"a", "b">>]}
Hints == {"h1", "h2"}
\* the requested lists name each asset at most once
KeyLists ==
    {l \in SeqsUpTo(AssetKeySet, MaxAssetKeys) :
        \A i, j \in 1..Len(l) : i # j => l[i] # l[j]}

\* what the backend may answer: a 1D asset with nothing or everything
\* materialized
ServerData ==
    {AssetNodeData(<<DimX>>, [typename |-> "null"]),
     AssetNodeData(<<DimX>>, [typename |-> "MaterializedPartitions1D",
                              ranges |-> <<Wire1D(DimX, <<0, MaxKeys - 1>>)>>])}

IndexIdle ==
    /\ data = NotFoundData
    /\ health = buildPartitionHealthData(NotFoundData, IndexAssetKey)
    /\ dimensionKeys = <<>>
    /\ call = NoCall
    /\ ret = "none"

(***************************************************************************)
(* Spec: the hook                                                          *)
(***************************************************************************)
\* the state after the first evaluation of a mounted hook
Init ==
    /\ IndexIdle
    /\ \E keys \in KeyLists : \E hint \in Hints :
         \E e \in {Evaluate(keys, hint, <<>>, NoDeps, EmptyBag, {})} :
            /\ assetKeys = keys
            /\ assetLastMaterializedAt = hint
            /\ result = <<>>
            /\ memoDeps = e.memoDeps
            /\ inflight = e.inflight
            /\ returned = e.returned
            /\ requested = e.requested
            /\ last = [op |-> "render", issued |-> e.issued]

\* the component re-renders: the hook is evaluated with (possibly new) props
Render(keys, hint) ==
    \E e \in {Evaluate(keys, hint, result, memoDeps, inflight, requested)} :
       /\ BagCardinality(e.inflight) <= MaxInFlight
       /\ assetKeys' = keys
       /\ assetLastMaterializedAt' = hint
       /\ result' = result
       /\ memoDeps' = e.memoDeps
       /\ inflight' = e.inflight
       /\ returned' = e.returned
       /\ requested' = e.requested
       /\ last' = [op |-> "render", issued |-> e.issued]
       /\ UNCHANGED indexVars

\* client.query of fetch f resolves with d: run() builds the index, setResult
\* replaces the state and React evaluates the hook again with the same props
Resolve(f, d) ==
    /\ BagIn(f, inflight)
    /\ \E res \in {setResult(result, buildPartitionHealthData(d, f.loadKey), f.fetchedAt)} :
        \E e \in {Evaluate(assetKeys, assetLastMaterializedAt, res, memoDeps,
                           inflight (-) SetToBag({f}), requested)} :
          /\ result' = res
          /\ memoDeps' = e.memoDeps
          /\ inflight' = e.inflight
          /\ returned' = e.returned
          /\ requested' = e.requested
          /\ last' = [op |-> "resolve", issued |-> e.issued]
    /\ UNCHANGED <<assetKeys, assetLastMaterializedAt>>
    /\ UNCHANGED indexVars

\* mutant of Reject: the failure is recorded as an empty index tagged with the hint
RejectStoresEntry(f) ==
    /\ BagIn(f, inflight)
    /\ inflight' = inflight (-) SetToBag({f})
    /\ result' = setResult(result, buildPartitionHealthData(NotFoundData, f.loadKey),
                           f.fetchedAt)
    /\ last' = [op |-> "reject", issued |-> {}]
    /\ UNCHANGED <<assetKeys, assetLastMaterializedAt, memoDeps, returned, requested>>
    /\ UNCHANGED indexVars

\* client.query of fetch f rejects: run() throws at the await, nothing is set
\* and nothing re-renders
Reject(f) ==
    /\ BagIn(f, inflight)
    /\ inflight' = inflight (-) SetToBag({f})
    /\ last' = [op |-> "reject", issued |-> {}]
    /\ UNCHANGED <<assetKeys, assetLastMaterializedAt, result, memoDeps, returned, requested>>
    /\ UNCHANGED indexVars

Next ==
    \/ \E keys \in KeyLists : \E hint \in Hints : Render(keys, hint)
    \/ \E f \in BagToSet(inflight) : \E d \in ServerData : Resolve(f, d)
    \/ \E f \in BagToSet(inflight) : Reject(f)

Spec == Init /\ [][Next]_vars

(***************************************************************************)
(* SpecAllSucceed: the hook when no query rejects and every unresolved     *)
(* query resolves in the end (client.query's promise settles)              *)
(***************************************************************************)
\* the answer of the backend here: which ranges an answer carries does not enter
\* the choice of the key to fetch (lines 219-224 read assetKey and fetchedAt)
ServerDataAllSucceed == {AssetNodeData(<<DimX>>, [typename |-> "null"])}

ResolveSome ==
    \E f \in BagToSet(inflight) : \E d \in ServerDataAllSucceed : Resolve(f, d)

NextAllSucceed ==
    \/ \E keys \in KeyLists : \E hint \in Hints : Render(keys, hint)
    \/ ResolveSome

SpecAllSucceed == Init /\ [][NextAllSucceed]_vars /\ WF_vars(ResolveSome)

(***************************************************************************)
(* Claims about the hook                                                   *)
(***************************************************************************)
\* the list holds an entry for asset key K
HasEntry(list, K) == \E n \in 1..Len(list) : list[n].assetKey = K

\* the entries of the list for asset key K
EntriesFor(list, K) == {list[n] : n \in {m \in 1..Len(list) : list[m].assetKey = K}}

\* the list holds an entry for K tagged with hint h
Tagged(list, K, h) == \E e \in EntriesFor(list, K) : e.fetchedAt = h

\* the number of unresolved fetches for asset key K
InFlightFor(K) ==
    BagCardinality([f \in {g \in BagToSet(inflight) : g.loadKey = K} |-> CopiesIn(f, inflight)])

\* the hook was evaluated in the step that led to the current state
Evaluation(l) == l.op \in {"render", "resolve"}

\* C1: Ordering guarantee.  Once K's entry is tagged with hint h, the response of
\* a fetch that was issued before h was first requested does not overwrite it.
C1_Ordering ==
    [][\A f \in BagToSet(inflight) : \A d \in ServerData :
          Resolve(f, d) =>
            \A e \in EntriesFor(result, f.loadKey) :
                e.fetchedAt \notin f.seen => e \in EntriesFor(result', f.loadKey)]_vars

\* C2: Stale-while-revalidate.  Once the cache holds an entry for K, every later
\* evaluation that requests K returns an entry for K; an evaluation with changed
\* props (a new hint) returns the very entry the cache held, whatever its hint.
C2_StaleWhileRevalidate ==
    [][\A K \in AssetKeySet :
          (HasEntry(result, K) /\ Evaluation(last') /\ K \in Range(assetKeys')) =>
             /\ HasEntry(returned', K)
             /\ last'.op = "render" => EntriesFor(returned', K) = EntriesFor(result, K)]_vars

\* C2 witness: K is requested under a hint its entry is not tagged with, its
\* refetch is in flight, and the evaluation returned the old entry
C2_Witness ==
    /\ last.op = "render"
    /\ \E K \in Range(assetKeys) :
         /\ \E e \in EntriesFor(returned, K) : e.fetchedAt # assetLastMaterializedAt
         /\ \E f \in BagToSet(inflight) :
              f.loadKey = K /\ f.fetchedAt = assetLastMaterializedAt

\* keys[i] is the first requested key without an entry tagged with the hint
FirstStale(keys, list, hint, i) ==
    /\ ~Tagged(list, keys[i], hint)
    /\ \A j \in 1..(i - 1) : Tagged(list, keys[j], hint)

\* what an evaluation may issue: at most one fetch, for the first requested key
\* without an entry tagged with the hint, and none when every key has one
SerialIssue(l, keys, list, hint) ==
    Evaluation(l) =>
      /\ Cardinality(l.issued) <= 1
      /\ \A f \in l.issued :
           /\ f.fetchedAt = hint
           /\ \E i \in 1..Len(keys) : keys[i] = f.loadKey /\ FirstStale(keys, list, hint, i)
      /\ (\A i \in 1..Len(keys) : Tagged(list, keys[i], hint)) => l.issued = {}

\* C3: Serial backlog order.  Each evaluation issues a fetch for at most one key,
\* the first key in request order without an entry tagged with the hint; a later
\* key is fetched only after every earlier key has such an entry; when every key
\* has one, no fetch is issued and an evaluation with the same props leaves the
\* entries and the returned list unchanged.
C3_SerialBacklog ==
    /\ SerialIssue(last, assetKeys, result, assetLastMaterializedAt)
    /\ [][/\ SerialIssue(last', assetKeys', result', assetLastMaterializedAt')
          /\ BagCardinality(inflight') <= BagCardinality(inflight) + 1
          /\ (/\ \A i \in 1..Len(assetKeys) :
                    Tagged(result, assetKeys[i], assetLastMaterializedAt)
              /\ last'.op = "render"
              /\ assetKeys' = assetKeys
              /\ assetLastMaterializedAt' = assetLastMaterializedAt)
               => (result' = result /\ returned' = returned /\ inflight' = inflight)]_vars

\* C3 witness: the first requested key has its entry tagged with the hint, the
\* second has no entry at all, and the evaluation after the first key's
\* response issued the fetch of the second
C3_Witness ==
    /\ last.op = "resolve"
    /\ Len(assetKeys) = 2
    /\ Tagged(result, assetKeys[1], assetLastMaterializedAt)
    /\ ~HasEntry(result, assetKeys[2])
    /\ ~HasEntry(returned, assetKeys[2])
    /\ \E f \in last.issued : f.loadKey = assetKeys[2]
    /\ BagCardinality(inflight) = 1

\* C4: No parallel fetches.  At most one fetch is in flight at a time.
C4_NoParallelFetches == BagCardinality(inflight) <= 1

\* C5: At most one outstanding fetch per key.
C5_OneFetchPerKey == \A K \in AssetKeySet : InFlightFor(K) <= 1

\* C6: Fetch failure leaves the cache unchanged.  When the query rejects, the
\* entry list and the returned list stay as they were: the prior entry keeps its
\* index and hint and no entry tagged with the requested hint is created.
C6_FailureLeavesCache ==
    [][last'.op = "reject" => (result' = result /\ returned' = returned)]_vars

\* C6 witness: the refetch of a requested key whose entry is stale was rejected;
\* the stale entry is still returned and no fetch for the key is in flight
C6_Witness ==
    /\ last.op = "reject"
    /\ \E K \in Range(assetKeys) :
         /\ \E e \in EntriesFor(returned, K) : e.fetchedAt # assetLastMaterializedAt
         /\ InFlightFor(K) = 0
         /\ memoDeps[1] = JSONstringify(K)

\* C7: Fetch failure is retried.  After a fetch rejects, an evaluation with the
\* same key list and hint in which some key still has no entry tagged with the
\* hint, and no fetch is in flight, issues a fetch for the first such key.
C7_FailureRetried ==
    [][(/\ last.op = "reject"
        /\ last'.op = "render"
        /\ assetKeys' = assetKeys
        /\ assetLastMaterializedAt' = assetLastMaterializedAt
        /\ BagCardinality(inflight) = 0)
         => \A i \in 1..Len(assetKeys) :
               FirstStale(assetKeys, result, assetLastMaterializedAt, i)
                  => \E f \in last'.issued : f.loadKey = assetKeys[i]]_vars

(***************************************************************************)
(* Claims about the index, stated over the wire payload the index was      *)
(* built from                                                              *)
(***************************************************************************)
\* the dimension list the backend declared
DeclaredDims ==
    IF data.assetNodeOrError.typename = "AssetNode"
    THEN data.assetNodeOrError.partitionKeysByDimension
    ELSE <<>>

\* the ranges of the wire payload
WireRanges ==
    IF /\ data.assetNodeOrError.typename = "AssetNode"
       /\ data.assetNodeOrError.materializedPartitions.typename # "null"
    THEN data.assetNodeOrError.materializedPartitions.ranges
    ELSE <<>>

\* the second declared dimension is time-like: the wire's primary axis is the
\* second declared dimension
AxesSwapped == Len(DeclaredDims) = 2 /\ DeclaredDims[2].partitionKeys[1][1] = "t"

\* the declared position (1 or 2) of the wire's primary and secondary axis
WirePrimary == IF AxesSwapped THEN 2 ELSE 1
WireSecondary == IF AxesSwapped THEN 1 ELSE 2

\* the 0-based position of a key of a dimension
KeyPos(dim, key) == CHOOSE i \in 0..(Len(dim.partitionKeys) - 1) : dim.partitionKeys[i + 1] = key

\* keys is one key of each declared dimension, in declared order
ValidTuple(keys) ==
    /\ Len(keys) = Len(DeclaredDims)
    /\ \A i \in 1..Len(keys) : keys[i] \in Range(DeclaredDims[i].partitionKeys)

\* the wire interval from key a to key b of dimension dim covers key k
Covers(dim, a, b, k) == KeyPos(dim, a) <= KeyPos(dim, k) /\ KeyPos(dim, k) <= KeyPos(dim, b)

\* the wire range r covers the primary-axis key of the tuple
PrimaryCovers(r, keys) ==
    IF r.typename = "MaterializedPartitionRange1D"
    THEN Covers(DeclaredDims[WirePrimary], r.start, r.end, keys[WirePrimary])
    ELSE Covers(DeclaredDims[WirePrimary], r.primaryDimStart, r.primaryDimEnd, keys[WirePrimary])

\* one of the secondary ranges of the wire range r covers the secondary-axis key
SecondaryCovers(r, keys) ==
    \E j \in 1..Len(r.secondaryDimRanges) :
        Covers(DeclaredDims[WireSecondary], r.secondaryDimRanges[j].start,
               r.secondaryDimRanges[j].end, keys[WireSecondary])

\* the partition named by the tuple is materialized according to the payload
Materialized(keys) ==
    \E i \in 1..Len(WireRanges) :
        /\ PrimaryCovers(WireRanges[i], keys)
        /\ \/ Len(DeclaredDims) = 1
           \/ WireRanges[i].typename = "MaterializedPartitionRange1D"
           \/ SecondaryCovers(WireRanges[i], keys)

\* a stateForKey call with a list the caller built in declared order
FreshPointQuery == call.method = "stateForKey" /\ ~call.repeated /\ ValidTuple(call.keys)

C10_AxisSwap ==
    (FreshPointQuery /\ AxesSwapped
       /\ data.assetNodeOrError.materializedPartitions.typename = "MaterializedPartitions2D") =>
        LET k0 == call.keys[1]
            k1 == call.keys[2]
            time == DeclaredDims[2]
            other == DeclaredDims[1]
        IN (ret = SUCCESS) <=>
             \E i \in 1..Len(WireRanges) :
                 /\ Covers(time, WireRanges[i].primaryDimStart, WireRanges[i].primaryDimEnd, k1)
                 /\ \E j \in 1..Len(WireRanges[i].secondaryDimRanges) :
                        Covers(other, WireRanges[i].secondaryDimRanges[j].start,
                               WireRanges[i].secondaryDimRanges[j].end, k0)

\* C10 witness: a swapped index answers SUCCESS for a tuple whose two keys sit at
\* different positions and whose mirror image is not materialized
C10_Witness ==
    /\ FreshPointQuery
    /\ AxesSwapped
    /\ data.assetNodeOrError.materializedPartitions.typename = "MaterializedPartitions2D"
    /\ ret = SUCCESS
    /\ KeyPos(DeclaredDims[1], call.keys[1]) # KeyPos(DeclaredDims[2], call.keys[2])
    /\ ~Materialized(<<DeclaredDims[1].partitionKeys[KeyPos(DeclaredDims[2], call.keys[2]) + 1],
                      DeclaredDims[2].partitionKeys[KeyPos(DeclaredDims[1], call.keys[1]) + 1]>>)

\* the merge of point-query states: SUCCESS when all are SUCCESS, MISSING when
\* none is, SUCCESS_MISSING otherwise
MergeLaw(k, others) ==
    LET ok == {n \in 1..Len(others) : stateForKey(health, <<k, others[n]>>) = SUCCESS}
    IN IF ok = 1..Len(others) THEN SUCCESS
       ELSE IF ok = {} THEN MISSING
       ELSE SUCCESS_MISSING

\* C9: Merge law.  For every 2D index, swapped or not, every dimension-0 key k and
\* every non-empty selection otherKeys of dimension-1 keys, declared order,
\* stateForSingleDimension(0, k, otherKeys) is SUCCESS iff stateForKey([k, o]) is
\* SUCCESS for every o, MISSING iff for no o, and SUCCESS_MISSING otherwise.
C9_MergeLaw ==
    (/\ call.method = "stateForSingleDimension"
     /\ call.dimensionIdx = 0
     /\ Len(DeclaredDims) = 2
     /\ call.other.given
     /\ call.dimensionKey \in Range(DeclaredDims[1].partitionKeys)
     /\ Range(call.other.keys) \subseteq Range(DeclaredDims[2].partitionKeys)
     /\ data.assetNodeOrError.materializedPartitions.typename = "MaterializedPartitions2D")
      => ret = MergeLaw(call.dimensionKey, call.other.keys)

\* C11: Unknown keys are MISSING.  For every index and every stateForKey call
\* with one key per dimension in which some key does not occur in its dimension's
\* key sequence, the call returns MISSING and raises no error.
C11_UnknownKeysMissing ==
    (/\ call.method = "stateForKey"
     /\ ~call.repeated
     /\ Len(call.keys) = Len(DeclaredDims)
     /\ \E i \in 1..Len(call.keys) : call.keys[i] \notin Range(DeclaredDims[i].partitionKeys))
      => ret = MISSING

\* C11 witness: on a swapped 2D index a point query whose primary key lies in a
\* wire range and whose secondary key is unknown was answered MISSING
C11_Witness ==
    /\ call.method = "stateForKey"
    /\ ~call.repeated
    /\ AxesSwapped
    /\ Len(call.keys) = 2
    /\ call.keys[WirePrimary] \in Range(DeclaredDims[WirePrimary].partitionKeys)
    /\ call.keys[WireSecondary] \notin Range(DeclaredDims[WireSecondary].partitionKeys)
    /\ \E i \in 1..Len(WireRanges) :
         /\ PrimaryCovers(WireRanges[i], call.keys)
         /\ Len(WireRanges[i].secondaryDimRanges) >= 1
    /\ ret = MISSING

\* C12: Unsupported dimension.  For every index (1D, 2D, swapped) and every key,
\* stateForSingleDimension(d, key) with d >= 2 raises the unsupported-dimension
\* error and returns no state, and a point query made on the same index after
\* the error is answered as on a fresh index.
C12_UnsupportedDimension ==
    /\ (call.method = "stateForSingleDimension" /\ call.dimensionIdx >= 2) => ret = THROWN
    /\ (call.afterThrow /\ ~call.repeated /\ ValidTuple(call.keys) /\ Len(call.keys) >= 1) =>
          ret = IF Materialized(call.keys) THEN SUCCESS ELSE MISSING

\* C12 witness: on a swapped index a point query made after the error of a
\* stateForSingleDimension call was answered SUCCESS
C12_Witness ==
    /\ call.afterThrow
    /\ ~call.repeated
    /\ AxesSwapped
    /\ ValidTuple(call.keys)
    /\ ret = SUCCESS

\* the payload declares the entire key space as one full range
FullRangePayload ==
    /\ Len(DeclaredDims) >= 1
    /\ Len(WireRanges) = 1
    /\ LET r == WireRanges[1]
           first(dim) == dim.partitionKeys[1]
           final(dim) == dim.partitionKeys[Len(dim.partitionKeys)]
       IN IF Len(DeclaredDims) = 1
          THEN r.start = first(DeclaredDims[1]) /\ r.end = final(DeclaredDims[1])
          ELSE /\ r.primaryDimStart = first(DeclaredDims[WirePrimary])
               /\ r.primaryDimEnd = final(DeclaredDims[WirePrimary])
               /\ Len(r.secondaryDimRanges) = 1
               /\ r.secondaryDimRanges[1].start = first(DeclaredDims[WireSecondary])
               /\ r.secondaryDimRanges[1].end = final(DeclaredDims[WireSecondary])

\* a stateForSingleDimension(0, k) call, no selection, k a key of declared
\* dimension 0
Dimension0Query ==
    /\ call.method = "stateForSingleDimension"
    /\ call.dimensionIdx = 0
    /\ ~call.other.given
    /\ Len(DeclaredDims) >= 1
    /\ call.dimensionKey \in Range(DeclaredDims[1].partitionKeys)

\* C13: Full-range round trip.  For every 1D or 2D dimension list, swapped ones
\* included, an index built from a payload declaring the entire key space as one
\* full range answers SUCCESS to stateForKey for every valid key tuple and SUCCESS
\* to stateForSingleDimension(0, k) for every key k of declared dimension 0.
C13_FullRangeRoundTrip ==
    FullRangePayload =>
        /\ (FreshPointQuery => ret = SUCCESS)
        /\ (Dimension0Query => ret = SUCCESS)

\* C13 witness: stateForSingleDimension(0, k) answered SUCCESS on a swapped 2D
\* index built from the full range
C13_Witness ==
    /\ FullRangePayload
    /\ AxesSwapped
    /\ Dimension0Query
    /\ ret = SUCCESS

\* the wire primary ranges one of whose secondary ranges covers the key k of
\* declared dimension 1 (axes not swapped)
RangesWithSecondary(k) ==
    {i \in 1..Len(WireRanges) :
        \E j \in 1..Len(WireRanges[i].secondaryDimRanges) :
            Covers(DeclaredDims[2], WireRanges[i].secondaryDimRanges[j].start,
                   WireRanges[i].secondaryDimRanges[j].end, k)}

\* C17: Dimension-1 query without a dimension-0 selection.  For every 2D index
\* whose axes are not swapped and every dimension-1 key k,
\* stateForSingleDimension(1, k) is SUCCESS when every primary range has a
\* secondary range containing k's index, MISSING when no primary range has one,
\* and SUCCESS_MISSING when some but not all have one.
C17_Dimension1Query ==
    (/\ call.method = "stateForSingleDimension"
     /\ call.dimensionIdx = 1
     /\ ~call.other.given
     /\ Len(DeclaredDims) = 2
     /\ ~AxesSwapped
     /\ call.dimensionKey \in Range(DeclaredDims[2].partitionKeys))
      => LET has == RangesWithSecondary(call.dimensionKey)
             every == 1..Len(WireRanges)
         IN /\ (has = every) => ret = SUCCESS
            /\ (has = {}) => ret = MISSING
            /\ (has # every /\ has # {}) => ret = SUCCESS_MISSING

\* the wire primary range r is FULL: its secondary ranges are exactly one
\* interval from the first to the last key of declared dimension 1
Full(r) ==
    /\ Len(r.secondaryDimRanges) = 1
    /\ r.secondaryDimRanges[1].start = DeclaredDims[2].partitionKeys[1]
    /\ r.secondaryDimRanges[1].end = DeclaredDims[2].partitionKeys[Len(DeclaredDims[2].partitionKeys)]

\* the wire primary ranges containing the key k of declared dimension 0 (axes
\* not swapped)
RangesContaining(k) ==
    {i \in 1..Len(WireRanges) :
        Covers(DeclaredDims[1], WireRanges[i].primaryDimStart, WireRanges[i].primaryDimEnd, k)}

C19_QueriesRepeatable ==
    [][(call'.method = "stateForKey") =>
          /\ dimensionKeys' = call'.keys
          /\ (call'.repeated /\ ~call.repeated) => ret' = ret]_vars

\* C20: Empty index reports nothing materialized.  For an index of one or two
\* dimensions (swapped or not) built from a payload with no ranges, stateForKey
\* returns MISSING for every valid tuple, and stateForSingleDimension(d, k) and
\* stateForSingleDimension(d, k, otherKeys) return MISSING for every dimension d
\* of the index, every key k of it and every non-empty otherKeys of the other
\* dimension.
C20_EmptyIndexMissing ==
    (Len(DeclaredDims) >= 1 /\ Len(WireRanges) = 0) =>
        /\ FreshPointQuery => ret = MISSING
        /\ (/\ call.method = "stateForSingleDimension"
            /\ call.dimensionIdx < Len(DeclaredDims)
            /\ call.dimensionKey \in Range(DeclaredDims[call.dimensionIdx + 1].partitionKeys)
            /\ call.other.given =>
                  Range(call.other.keys) \subseteq
                      Range(DeclaredDims[2 - call.dimensionIdx].partitionKeys))
             => ret = MISSING

(***************************************************************************)
(* Further claims about the hook                                           *)
(***************************************************************************)
\* the key of the entry the last resolved fetch stored (setResult appends it)
StoredKey(list) == list[Len(list)].assetKey

\* C14: Returned list is filtered to current interest.  In every reachable state
\* the returned list holds only entries whose key is in the currently requested
\* key list, and a response arriving for a key that is no longer requested
\* leaves the returned list as it was: no entry for that key appears and the
\* returned entries of the requested keys do not change.
C14_ReturnedFiltered ==
    /\ [](\A n \in 1..Len(returned) : returned[n].assetKey \in Range(assetKeys))
    /\ [][(last'.op = "resolve" /\ StoredKey(result') \notin Range(assetKeys'))
             => returned' = returned]_vars

\* C14 witness: the response for a key that is not requested was stored while
\* the entry of the requested key is returned
C14_Witness ==
    /\ last.op = "resolve"
    /\ StoredKey(result) \notin Range(assetKeys)
    /\ Len(returned) >= 1
    /\ Len(result) > Len(returned)

\* C15: One entry per key.  In every reachable state the entry list holds at
\* most one entry per structurally distinct asset key, and a completed fetch for
\* K replaces K's prior entry (the list keeps its length) rather than adding a
\* second one.
C15_OneEntryPerKey ==
    /\ [](\A i, j \in 1..Len(result) :
             i # j => ~isEqual(result[i].assetKey, result[j].assetKey))
    /\ [][(last'.op = "resolve") =>
             Len(result') = IF HasEntry(result, StoredKey(result'))
                            THEN Len(result)
                            ELSE Len(result) + 1]_vars

\* C15 witness: both keys have an entry, both hints have been requested, and the
\* last response stored the entry of the key that is listed first
C15_Witness ==
    /\ last.op = "resolve"
    /\ Len(result) = 2
    /\ Len(assetKeys) = 2
    /\ StoredKey(result) = assetKeys[1]
    /\ requested = Hints
    /\ result[1].fetchedAt # result[2].fetchedAt

\* every requested key has an entry tagged with the current hint
AllTagged ==
    \A i \in 1..Len(assetKeys) : Tagged(result, assetKeys[i], assetLastMaterializedAt)

\* C16: Backlog eventually drained.  If the key list and the hint stop changing
\* and every fetch succeeds in the end, then from some point on every requested
\* key has an entry tagged with the current hint, no fetch is unresolved and no
\* further fetch is issued, whatever the order in which earlier unresolved
\* fetches (those issued under older hints included) resolve.
C16_BacklogDrained ==
    <>[][assetKeys' = assetKeys /\ assetLastMaterializedAt' = assetLastMaterializedAt]_vars
      => <>[](AllTagged /\ inflight = EmptyBag /\ last.issued = {})

\* C16 witness: two keys, both hints requested, and after the last response
\* every key is tagged with the current hint with nothing unresolved
C16_Witness ==
    /\ last.op = "resolve"
    /\ Len(assetKeys) = 2
    /\ requested = Hints
    /\ AllTagged
    /\ inflight = EmptyBag

\* the merge of the point-query states of the tuples <<d0, k>>, d0 in d0Keys:
\* SUCCESS when all are SUCCESS, MISSING when none is, SUCCESS_MISSING otherwise
PointQueryLaw(k, d0Keys) ==
    LET ok == {n \in 1..Len(d0Keys) : stateForKey(health, <<d0Keys[n], k>>) = SUCCESS}
    IN IF ok = 1..Len(d0Keys) THEN SUCCESS
       ELSE IF ok = {} THEN MISSING
       ELSE SUCCESS_MISSING

\* C21: Dimension-1 partial query agrees with point queries.  For every 2D index
\* whose axes are not swapped, every dimension-1 key k and every non-empty
\* selection d0Keys of dimension-0 keys, stateForSingleDimension(1, k, d0Keys) is
\* SUCCESS iff stateForKey([d0, k]) is SUCCESS for every d0 in d0Keys, MISSING iff
\* it is SUCCESS for no d0 in d0Keys, and SUCCESS_MISSING otherwise.
C21_Dimension1AgreesWithPoints ==
    (/\ call.method = "stateForSingleDimension"
     /\ call.dimensionIdx = 1
     /\ call.other.given
     /\ Len(DeclaredDims) = 2
     /\ ~AxesSwapped
     /\ call.dimensionKey \in Range(DeclaredDims[2].partitionKeys)
     /\ Range(call.other.keys) \subseteq Range(DeclaredDims[1].partitionKeys))
      => ret = PointQueryLaw(call.dimensionKey, call.other.keys)

====
